---- MODULE Spec2Model ----
(***************************************************************************)
(* A model of json-to-pddl.py: the Box-World JSON -> PDDL translator and   *)
(* the Fast Downward plan parser.                                          *)
(*                                                                         *)
(* Text is modelled character by character: a Python str is a sequence of  *)
(* code points (naturals), so that formatting (atom, and_formula), sorting *)
(* (sorted: lexicographic by code point) and parsing (strip, split,        *)
(* startswith, re.search) are computed as the code computes them.          *)
(* A Python dict is a sequence of <<key, value>> pairs with distinct keys, *)
(* in insertion order.  A Python list is a sequence.                       *)
(***************************************************************************)
EXTENDS Integers, Sequences, FiniteSets, TLC

VARIABLES
    data,       \* the parsed JSON input of the current conversion
    pending,    \* the inputs of the conversions still to run, in order
    pc,         \* position of the converter: start, loaded, emitted, error
    err,        \* which raise of load_ProblemSpec fired ("none": none)
    spec,       \* the ProblemSpec load_ProblemSpec returned
    facts,      \* the list init_facts returned (local "init" of emit_pddl_problem)
    pddl,       \* the text emit_pddl_problem returned
    prev_pddl,  \* the text the previous conversion returned
    plan_text,  \* the plan file content handed to parse_fd_plan_text
    origin,     \* what plan_text was written from: its lines' descriptors,
                \* or the plan result it renders
    ppc,        \* position of the plan parser: idle, start, loop, returned, raised
    raws,       \* plan_text.splitlines()
    idx,        \* index in raws of the line the loop is at
    steps,      \* local "steps" of parse_fd_plan_text
    cost,       \* local "cost" of parse_fd_plan_text
    first       \* what an earlier call on the same text returned (<<>>: none)

conv_vars == <<data, pending, pc, err, spec, facts, pddl, prev_pddl>>
plan_vars == <<plan_text, origin, ppc, raws, idx, steps, cost, first>>
vars == <<data, pending, pc, err, spec, facts, pddl, prev_pddl,
          plan_text, origin, ppc, raws, idx, steps, cost, first>>

---------------------------------------------------------------------------
(* Characters the code names in its literals.                              *)
LP == 40
RP == 41
SP == 32
NL == 10
SEMI == 59
EQ == 61

\* Python's None where a str is expected: a sequence that is no str.
None == <<-1>>
\* Python's None where an int is expected (cost: Optional[int] = None).
NoCost == -1

\* Predicate names and keywords, as the code spells them.
s_robot_at == <<114, 111, 98, 111, 116, 45, 97, 116>>
s_hands_empty == <<104, 97, 110, 100, 115, 45, 101, 109, 112, 116, 121>>
s_holding == <<104, 111, 108, 100, 105, 110, 103>>
s_black == <<98, 108, 97, 99, 107>>
s_white == <<119, 104, 105, 116, 101>>
s_forbidden_stack == <<102, 111, 114, 98, 105, 100, 100, 101, 110, 45, 115, 116, 97, 99, 107>>
s_box_at == <<98, 111, 120, 45, 97, 116>>
s_on == <<111, 110>>
s_clear == <<99, 108, 101, 97, 114>>
s_and == <<97, 110, 100>>
s_cost == <<99, 111, 115, 116>>

---------------------------------------------------------------------------
(* Sequence helpers.                                                       *)

Range(s) == {s[i] : i \in 1..Len(s)}

RECURSIVE Flatten(_)
Flatten(ss) == IF ss = <<>> THEN <<>> ELSE Head(ss) \o Flatten(Tail(ss))

\* sep.join(parts)
RECURSIVE join(_, _)
join(sep, parts) ==
    IF parts = <<>> THEN <<>>
    ELSE IF Len(parts) = 1 THEN parts[1]
    ELSE parts[1] \o sep \o join(sep, Tail(parts))

\* list.count(x)
count(s, x) == Cardinality({i \in 1..Len(s) : s[i] = x})

\* str.isspace() of one character
IsSpace(c) ==
    c \in {9, 10, 11, 12, 13, 28, 29, 30, 31, 32, 133, 160, 5760, 8232, 8233, 8239, 8287, 12288}
           \cup 8192..8202

\* str.strip()
RECURSIVE strip(_)
strip(s) ==
    IF s = <<>> THEN s
    ELSE IF IsSpace(s[1]) THEN strip(Tail(s))
    ELSE IF IsSpace(s[Len(s)]) THEN strip(SubSeq(s, 1, Len(s) - 1))
    ELSE s

\* str.split(): the maximal runs of non-space characters, in order
RECURSIVE split(_)
split(s) ==
    IF s = <<>> THEN <<>>
    ELSE IF IsSpace(s[1]) THEN split(Tail(s))
    ELSE LET n == CHOOSE n \in 1..Len(s) :
                     /\ \A i \in 1..n : ~IsSpace(s[i])
                     /\ n = Len(s) \/ IsSpace(s[n + 1])
         IN  <<SubSeq(s, 1, n)>> \o split(SubSeq(s, n + 1, Len(s)))

\* str.startswith(prefix), str.endswith(suffix)
startswith(s, prefix) ==
    Len(s) >= Len(prefix) /\ SubSeq(s, 1, Len(prefix)) = prefix
endswith(s, suffix) ==
    Len(s) >= Len(suffix) /\ SubSeq(s, Len(s) - Len(suffix) + 1, Len(s)) = suffix

\* str < str: lexicographic by code point, a proper prefix first.
RECURSIVE StrLess(_, _)
StrLess(s, t) ==
    IF t = <<>> THEN FALSE
    ELSE IF s = <<>> THEN TRUE
    ELSE IF s[1] # t[1] THEN s[1] < t[1]
    ELSE StrLess(Tail(s), Tail(t))

RECURSIVE Insert(_, _)
Insert(x, s) ==
    IF s = <<>> THEN <<x>>
    ELSE IF StrLess(x, s[1]) THEN <<x>> \o s
    ELSE <<s[1]>> \o Insert(x, Tail(s))

\* sorted(list of str): ascending, stable.
RECURSIVE sorted(_)
sorted(s) ==
    IF s = <<>> THEN <<>>
    ELSE Insert(s[Len(s)], sorted(SubSeq(s, 1, Len(s) - 1)))

\* dict helpers: keys in insertion order, lookup, d[k] = v.
Keys(d) == [i \in 1..Len(d) |-> d[i][1]]
HasKey(d, k) == \E i \in 1..Len(d) : d[i][1] = k
Get(d, k) == d[CHOOSE i \in 1..Len(d) : d[i][1] = k][2]
Put(d, k, v) ==
    IF HasKey(d, k)
    THEN [i \in 1..Len(d) |-> IF d[i][1] = k THEN <<k, v>> ELSE d[i]]
    ELSE Append(d, <<k, v>>)

\* dict.update(other)
RECURSIVE Update(_, _)
Update(d, other) ==
    IF other = <<>> THEN d
    ELSE Update(Put(d, other[1][1], other[1][2]), Tail(other))

---------------------------------------------------------------------------
(* Utilities (src lines 44-66).                                            *)

atom(pred, args) ==
    IF args # <<>>
    THEN <<LP>> \o pred \o <<SP>> \o join(<<SP>>, args) \o <<RP>>
    ELSE <<LP>> \o pred \o <<RP>>

and_formula_wrap_all(atoms) ==
    IF atoms = <<>> THEN <<LP>> \o s_and \o <<RP>>
    ELSE <<LP>> \o s_and \o <<SP>> \o join(<<SP>>, atoms) \o <<RP>>

and_formula(atoms) ==
    IF atoms = <<>> THEN <<LP>> \o s_and \o <<RP>>
    ELSE IF Len(atoms) = 1 THEN atoms[1]
    ELSE <<LP>> \o s_and \o <<SP>> \o join(<<SP>>, atoms) \o <<RP>>

\* isinstance(s, str) and len(s) > 0
is_name(s) == s # None /\ Len(s) > 0

\* sorted(obj.keys()) of a dict
canonical_keys(obj) == sorted(Keys(obj))

---------------------------------------------------------------------------
(* Parsing / normalization (src lines 89-301).                             *)
(*                                                                         *)
(* The parsed JSON document is a record:                                   *)
(*   absent          the required top-level keys the document lacks        *)
(*   problem_name    a str                                                 *)
(*   locations, boxes                                                      *)
(*                   [shape |-> "list", names |-> list of str] or          *)
(*                   [shape |-> "dict", items |-> dict name -> value],     *)
(*                   a value being "null", "notdict" (neither object nor   *)
(*                   null) or the object's color: "absent", "black",       *)
(*                   "white", "red" (any other value)                      *)
(*   robot_at        a str                                                 *)
(*   holding         a str or None                                         *)
(*   stacks          dict location -> list of str (top first) or NoneList  *)
(*   forbidden_stack, goal_on, goal_at   lists of pairs of str             *)
(*   goal_clear      list of str                                           *)
(*   goal_pddl       list of str                                           *)
(***************************************************************************)

\* Python's None where a list of str is expected.
NoneList == <<None>>

\* The first raise of a loop: the tag of the first iteration that raises.
FirstErr(tags) ==
    IF \E i \in 1..Len(tags) : tags[i] # "none"
    THEN tags[CHOOSE i \in 1..Len(tags) :
                 /\ tags[i] # "none"
                 /\ \A j \in 1..(i - 1) : tags[j] = "none"]
    ELSE "none"

\* {n: {} for n in names}: one key per distinct name, at its first position.
RECURSIVE EmptyProps(_)
EmptyProps(names) ==
    IF names = <<>> THEN <<>>
    ELSE LET rest == EmptyProps(SubSeq(names, 1, Len(names) - 1))
             n == names[Len(names)]
         IN  IF HasKey(rest, n) THEN rest ELSE Append(rest, <<n, "absent">>)

parse_named_objects(field) ==
    IF field.shape = "list"
    THEN IF \E i \in 1..Len(field.names) : ~is_name(field.names[i])
         THEN [err |-> "names_list", names |-> <<>>, props |-> <<>>]
         ELSE [err |-> "none", names |-> field.names, props |-> EmptyProps(field.names)]
    ELSE LET names == canonical_keys(field.items)
             vals == [i \in 1..Len(names) |-> Get(field.items, names[i])]
         IN  IF \E i \in 1..Len(names) : vals[i] = "notdict"
             THEN [err |-> "names_values", names |-> <<>>, props |-> <<>>]
             ELSE [err |-> "none", names |-> names,
                   props |-> [i \in 1..Len(names) |->
                                <<names[i], IF vals[i] = "null" THEN "absent" ELSE vals[i]>>]]

\* src 146-148
robot_at_err(d, loc_set) ==
    IF d.robot_at \notin loc_set THEN "robot_at" ELSE "none"

\* src 150-158
holding_err(d, box_set) ==
    IF d.holding = None THEN "none"
    ELSE IF ~is_name(d.holding) THEN "holding_type"
    ELSE IF d.holding \notin box_set THEN "holding"
    ELSE "none"

\* src 169-181, one iteration of the loop over stacks_raw.items(), with the
\* location test moved behind the null and empty tests.
stack_entry_err_late_key(l, stack, loc_set, box_set) ==
    IF stack = NoneList THEN "none"
    ELSE IF Len(stack) = 0 THEN "none"
    ELSE IF l \notin loc_set THEN "stacks_location"
    ELSE IF \E i \in 1..Len(stack) : ~is_name(stack[i]) THEN "stack_names"
    ELSE FirstErr([i \in 1..Len(stack) |->
                     IF stack[i] \notin box_set THEN "stack_box" ELSE "none"])

\* src 169-181, one iteration of the loop over stacks_raw.items()
stack_entry_err(l, stack, loc_set, box_set) ==
    IF l \notin loc_set THEN "stacks_location"
    ELSE IF stack = NoneList THEN "none"
    ELSE IF Len(stack) = 0 THEN "none"
    ELSE IF \E i \in 1..Len(stack) : ~is_name(stack[i]) THEN "stack_names"
    ELSE FirstErr([i \in 1..Len(stack) |->
                     IF stack[i] \notin box_set THEN "stack_box" ELSE "none"])

\* src 167-182: the raise of the loop, if any
stacks_err(d, loc_set, box_set) ==
    FirstErr([i \in 1..Len(d.stacks) |->
                stack_entry_err(d.stacks[i][1], d.stacks[i][2], loc_set, box_set)])

\* src 167-182: the dict "stacks" the loop builds (null and empty stacks skipped)
RECURSIVE normal_stacks(_)
normal_stacks(stacks_raw) ==
    IF stacks_raw = <<>> THEN <<>>
    ELSE LET e == Head(stacks_raw)
         IN  (IF e[2] = NoneList \/ Len(e[2]) = 0 THEN <<>> ELSE <<e>>)
             \o normal_stacks(Tail(stacks_raw))

\* src 191-197
forbidden_err(d, box_set) ==
    FirstErr([i \in 1..Len(d.forbidden_stack) |->
                IF d.forbidden_stack[i][1] \notin box_set
                   \/ d.forbidden_stack[i][2] \notin box_set
                THEN "forbidden_stack" ELSE "none"])

\* src 213-221
goal_on_err(d, loc_set, box_set) ==
    FirstErr([i \in 1..Len(d.goal_on) |->
                IF d.goal_on[i][1] \notin box_set THEN "goal_on_top"
                ELSE IF d.goal_on[i][2] \notin box_set /\ d.goal_on[i][2] \notin loc_set
                     THEN "goal_on_support"
                ELSE "none"])

\* src 229-237
goal_at_err(d, loc_set, box_set) ==
    FirstErr([i \in 1..Len(d.goal_at) |->
                IF d.goal_at[i][1] \notin box_set THEN "goal_at_box"
                ELSE IF d.goal_at[i][2] \notin loc_set THEN "goal_at_location"
                ELSE "none"])

\* src 245-250
goal_clear_err(d, loc_set, box_set) ==
    FirstErr([i \in 1..Len(d.goal_clear) |->
                IF d.goal_clear[i] \notin box_set /\ d.goal_clear[i] \notin loc_set
                THEN "goal_clear" ELSE "none"])

\* src 283-288: holding, then every stack's boxes, in dict order
used_boxes(s) ==
    (IF s.holding # None THEN <<s.holding>> ELSE <<>>)
    \o Flatten([i \in 1..Len(s.stacks) |-> s.stacks[i][2]])

\* validate_spec without the duplicates test
validate_spec_no_dupes(s) ==
    LET used == used_boxes(s)
    IN  IF Range(s.boxes) \ Range(used) # {} THEN "missing"
        ELSE IF \E i \in 1..Len(s.stacks) :
                   Cardinality(Range(s.stacks[i][2])) # Len(s.stacks[i][2])
             THEN "stack_dup"
        ELSE "none"

\* src 279-301: the raise, if any
validate_spec(s) ==
    LET used == used_boxes(s)
        dupes == {b \in Range(used) : count(used, b) > 1}
    IN  IF dupes # {} THEN "dupes"
        ELSE IF Range(s.boxes) \ Range(used) # {} THEN "missing"
        ELSE IF \E i \in 1..Len(s.stacks) :
                   Cardinality(Range(s.stacks[i][2])) # Len(s.stacks[i][2])
             THEN "stack_dup"
        ELSE "none"

EmptySpec ==
    [problem_name |-> <<>>, locations |-> <<>>, boxes |-> <<>>,
     loc_props |-> <<>>, box_props |-> <<>>, robot_at |-> <<>>, holding |-> None,
     stacks |-> <<>>, forbidden_stack |-> <<>>, goal_on |-> <<>>, goal_at |-> <<>>,
     goal_clear |-> <<>>, goal_pddl |-> <<>>]

\* src 120-276: [err |-> the raise ("none": it returned), spec |-> what it returned]
load_ProblemSpec(d) ==
    LET L == parse_named_objects(d.locations)
        B == parse_named_objects(d.boxes)
        loc_set == Range(L.names)
        box_set == Range(B.names)
        s == [problem_name |-> d.problem_name,
              locations |-> L.names, boxes |-> B.names,
              loc_props |-> L.props, box_props |-> B.props,
              robot_at |-> d.robot_at, holding |-> d.holding,
              stacks |-> normal_stacks(d.stacks),
              forbidden_stack |-> d.forbidden_stack,
              goal_on |-> d.goal_on, goal_at |-> d.goal_at,
              goal_clear |-> d.goal_clear, goal_pddl |-> d.goal_pddl]
        e == IF d.absent # {} THEN "missing_field"
             ELSE IF ~is_name(d.problem_name) THEN "problem_name"
             ELSE IF L.err # "none" THEN L.err
             ELSE IF B.err # "none" THEN B.err
             ELSE IF robot_at_err(d, loc_set) # "none" THEN robot_at_err(d, loc_set)
             ELSE IF holding_err(d, box_set) # "none" THEN holding_err(d, box_set)
             ELSE IF stacks_err(d, loc_set, box_set) # "none"
                  THEN stacks_err(d, loc_set, box_set)
             ELSE IF forbidden_err(d, box_set) # "none" THEN forbidden_err(d, box_set)
             ELSE IF goal_on_err(d, loc_set, box_set) # "none"
                  THEN goal_on_err(d, loc_set, box_set)
             ELSE IF goal_at_err(d, loc_set, box_set) # "none"
                  THEN goal_at_err(d, loc_set, box_set)
             ELSE IF goal_clear_err(d, loc_set, box_set) # "none"
                  THEN goal_clear_err(d, loc_set, box_set)
             ELSE validate_spec(s)
    IN  [err |-> e, spec |-> IF e = "none" THEN s ELSE EmptySpec]

---------------------------------------------------------------------------
(* PDDL generation (src lines 308-402).                                    *)

s_define == <<40, 100, 101, 102, 105, 110, 101, 32, 40, 112, 114, 111, 98, 108, 101, 109, 32>>
s_domain == <<32, 32, 40, 58, 100, 111, 109, 97, 105, 110, 32, 66, 79, 88, 45, 87, 79, 82, 76, 68, 41>>
s_objects == <<32, 32, 40, 58, 111, 98, 106, 101, 99, 116, 115, 32>>
s_box_type == <<32, 45, 32, 98, 111, 120, 10, 32, 32, 32, 32, 32, 32, 32, 32, 32, 32>>
s_location_type == <<32, 45, 32, 108, 111, 99, 97, 116, 105, 111, 110>>
s_init == <<32, 32, 40, 58, 105, 110, 105, 116>>
s_indent == <<32, 32, 32, 32>>
s_close == <<32, 32, 41>>
s_goal == <<32, 32, 40, 58, 103, 111, 97, 108, 32>>

\* src 308-318
color_facts(props) ==
    Flatten([i \in 1..Len(props) |->
               IF props[i][2] = "black" THEN <<atom(s_black, <<props[i][1]>>)>>
               ELSE IF props[i][2] = "white" THEN <<atom(s_white, <<props[i][1]>>)>>
               ELSE <<>>])

\* src 346-364 with the box-at fact given to the top box only
stack_facts_top_only(l, stack) ==
    IF stack = <<>> THEN <<>>
    ELSE <<atom(s_box_at, <<stack[1], l>>)>>
         \o (IF Len(stack) = 1
             THEN <<atom(s_on, <<stack[1], l>>), atom(s_clear, <<stack[1]>>)>>
             ELSE [i \in 1..(Len(stack) - 1) |-> atom(s_on, <<stack[i], stack[i + 1]>>)]
                  \o <<atom(s_on, <<stack[Len(stack)], l>>), atom(s_clear, <<stack[1]>>)>>)

\* src 346-364: what one iteration of the loop over spec.stacks appends
stack_facts(l, stack) ==
    IF stack = <<>> THEN <<>>
    ELSE [i \in 1..Len(stack) |-> atom(s_box_at, <<stack[i], l>>)]
         \o (IF Len(stack) = 1
             THEN <<atom(s_on, <<stack[1], l>>), atom(s_clear, <<stack[1]>>)>>
             ELSE [i \in 1..(Len(stack) - 1) |-> atom(s_on, <<stack[i], stack[i + 1]>>)]
                  \o <<atom(s_on, <<stack[Len(stack)], l>>), atom(s_clear, <<stack[1]>>)>>)

\* src 345-349
occupied_locations(s) ==
    {s.stacks[i][1] : i \in {j \in 1..Len(s.stacks) : s.stacks[j][2] # <<>>}}

\* src 366-369 with the clear fact given to every location
clear_facts_all(s) ==
    [i \in 1..Len(s.locations) |-> atom(s_clear, <<s.locations[i]>>)]

\* src 366-369
clear_facts(s) ==
    Flatten([i \in 1..Len(s.locations) |->
               IF s.locations[i] \notin occupied_locations(s)
               THEN <<atom(s_clear, <<s.locations[i]>>)>>
               ELSE <<>>])

\* src 321-371
init_facts(s) ==
    <<atom(s_robot_at, <<s.robot_at>>)>>
    \o (IF s.holding = None THEN <<atom(s_hands_empty, <<>>)>>
        ELSE <<atom(s_holding, <<s.holding>>)>>)
    \o color_facts(Update(Update(<<>>, s.loc_props), s.box_props))
    \o [i \in 1..Len(s.forbidden_stack) |->
          atom(s_forbidden_stack, <<s.forbidden_stack[i][1], s.forbidden_stack[i][2]>>)]
    \o Flatten([i \in 1..Len(s.stacks) |-> stack_facts(s.stacks[i][1], s.stacks[i][2])])
    \o clear_facts(s)

\* src 374-378: the list "atoms"
goal_atoms(s) ==
    [i \in 1..Len(s.goal_on) |-> atom(s_on, <<s.goal_on[i][1], s.goal_on[i][2]>>)]
    \o [i \in 1..Len(s.goal_at) |-> atom(s_box_at, <<s.goal_at[i][1], s.goal_at[i][2]>>)]
    \o [i \in 1..Len(s.goal_clear) |-> atom(s_clear, <<s.goal_clear[i]>>)]
    \o s.goal_pddl

\* src 374-379
goal_formula(s) == and_formula(goal_atoms(s))

\* emit_pddl_problem with the facts left in init_facts' order
emit_pddl_problem_unsorted(s) ==
    join(<<NL>>,
         <<s_define \o s.problem_name \o <<RP>>,
           s_domain,
           s_objects \o join(<<SP>>, s.boxes) \o s_box_type
                     \o join(<<SP>>, s.locations) \o s_location_type \o <<RP>>,
           s_init>>
         \o [i \in 1..Len(init_facts(s)) |-> s_indent \o init_facts(s)[i]]
         \o <<s_close, s_goal \o goal_formula(s) \o <<RP>>, <<RP>>>>)

\* src 382-402
emit_pddl_problem(s) ==
    LET init_sorted == sorted(init_facts(s))
    IN  join(<<NL>>,
             <<s_define \o s.problem_name \o <<RP>>,
               s_domain,
               s_objects \o join(<<SP>>, s.boxes) \o s_box_type
                         \o join(<<SP>>, s.locations) \o s_location_type \o <<RP>>,
               s_init>>
             \o [i \in 1..Len(init_sorted) |-> s_indent \o init_sorted[i]]
             \o <<s_close, s_goal \o goal_formula(s) \o <<RP>>, <<RP>>>>)

---------------------------------------------------------------------------
(* The converter: main's convert mode (src lines 530-538), once per input. *)

\* spec = load_ProblemSpec(args.json_path)
Load ==
    /\ pc = "start"
    /\ LET r == load_ProblemSpec(data)
       IN  /\ err' = r.err
           /\ spec' = r.spec
           /\ pc' = IF r.err = "none" THEN "loaded" ELSE "error"
    /\ UNCHANGED <<data, pending, facts, pddl, prev_pddl>>
    /\ UNCHANGED plan_vars

\* pddl = emit_pddl_problem(spec)
Emit ==
    /\ pc = "loaded"
    /\ facts' = init_facts(spec)
    /\ pddl' = emit_pddl_problem(spec)
    /\ pc' = "emitted"
    /\ UNCHANGED <<data, pending, err, spec, prev_pddl>>
    /\ UNCHANGED plan_vars

\* the program is run again, on the next input
NextInput ==
    /\ pc = "emitted"
    /\ pending # <<>>
    /\ data' = Head(pending)
    /\ pending' = Tail(pending)
    /\ prev_pddl' = pddl
    /\ pc' = "start"
    /\ err' = "none"
    /\ spec' = EmptySpec
    /\ facts' = <<>>
    /\ pddl' = <<>>
    /\ UNCHANGED plan_vars

---------------------------------------------------------------------------
(* Inputs.  Names are PDDL identifiers: one lower-case letter each.        *)

nA == <<97>>
nB == <<98>>
nL == <<108>>
nM == <<109>>
nZ == <<122>>
s_p == <<112>>

\* The longest stack of an input.
MaxStack == 2

ListOf(names) == [shape |-> "list", names |-> names, items |-> <<>>]
DictOf(items) == [shape |-> "dict", names |-> <<>>, items |-> items]

\* All lists over S of length lo..hi.
Lists(S, lo, hi) == UNION {[1..n -> S] : n \in lo..hi}

\* All dicts with keys among K (each key at most once, any order) and values in V.
Dicts(K, V) ==
    {d \in UNION {[1..n -> K \X V] : n \in 0..Cardinality(K)} :
        \A i, j \in 1..Len(d) : d[i][1] = d[j][1] => i = j}

Doc(locations, boxes, robot_at, holding, stacks) ==
    [absent |-> {}, problem_name |-> s_p, locations |-> locations, boxes |-> boxes,
     robot_at |-> robot_at, holding |-> holding, stacks |-> stacks,
     forbidden_stack |-> <<>>, goal_on |-> <<>>, goal_at |-> <<>>,
     goal_clear |-> <<>>, goal_pddl |-> <<>>]

\* Documents that vary the initial state: declared and undeclared locations and
\* boxes, null, empty and filled stacks.
StateDocs ==
    {Doc(ListOf(locs), ListOf(boxes), r, h, st) :
        locs \in {<<nL>>, <<nL, nM>>},
        boxes \in {<<nA>>, <<nA, nB>>},
        r \in {nL},
        h \in {None, nA, nZ},
        st \in Dicts({nL, nM}, {NoneList} \cup Lists({nA, nB, nZ}, 0, MaxStack))}

\* Documents that vary what follows the initial state: the forbidden pairs and
\* the goal, over a few initial states (valid, a box twice in a stack, a box in
\* two stacks, a box nowhere).
TailDocs ==
    {[absent |-> ab, problem_name |-> pn,
      locations |-> ListOf(<<nL, nM>>), boxes |-> ListOf(<<nA, nB>>),
      robot_at |-> r, holding |-> h, stacks |-> st,
      forbidden_stack |-> fs, goal_on |-> gon, goal_at |-> gat,
      goal_clear |-> gcl, goal_pddl |-> <<>>] :
        ab \in {{}, {"goal"}},
        pn \in {s_p, <<>>},
        r \in {nL, nZ},
        h \in {None, <<>>},
        st \in {<< <<nL, <<nA, nB>>>> >>,
                << <<nL, <<nA>>>>, <<nM, <<nB>>>> >>,
                << <<nL, <<nA, nA>>>>, <<nM, <<nB>>>> >>,
                << <<nL, <<nA, nB>>>>, <<nM, <<nB>>>> >>,
                << <<nL, <<nB>>>> >>},
        fs \in {<<>>, << <<nA, nB>> >>, << <<nA, nZ>> >>, << <<nA, nB>>, <<nZ, nB>> >>},
        gon \in {<<>>, << <<nA, nL>> >>, << <<nA, nB>>, <<nZ, nL>> >>, << <<nA, nZ>> >>},
        gat \in {<<>>, << <<nA, nL>> >>, << <<nZ, nL>> >>, << <<nA, nB>> >>},
        gcl \in {<<>>, <<nA, nL>>, <<nA, nZ>>}}

\* Documents that vary the shape of the declarations.
ShapeDocs ==
    {Doc(locs, boxes, nL, None, st) :
        locs \in {ListOf(<<nL, <<>>>>), ListOf(<<nL>>),
                  DictOf(<< <<nM, "null">>, <<nL, "black">> >>),
                  DictOf(<< <<nL, "notdict">> >>)},
        boxes \in {ListOf(<<nA>>), DictOf(<< <<nA, "white">> >>),
                   DictOf(<< <<nA, "notdict">> >>)},
        st \in {<< <<nL, <<nA>>>> >>, << <<nM, <<nA>>>> >>, <<>>}}

IdlePlan ==
    /\ plan_text = <<>>
    /\ origin = <<>>
    /\ ppc = "idle"
    /\ raws = <<>>
    /\ idx = 0
    /\ steps = <<>>
    /\ cost = NoCost
    /\ first = <<>>

\* One conversion of the document d, then of those of rest.
StartOn(d, rest) ==
    /\ data = d
    /\ pending = rest
    /\ pc = "start"
    /\ err = "none"
    /\ spec = EmptySpec
    /\ facts = <<>>
    /\ pddl = <<>>
    /\ prev_pddl = <<>>
    /\ IdlePlan

Init == \E d \in StateDocs \cup TailDocs \cup ShapeDocs : StartOn(d, <<>>)

Next == Load \/ Emit

Spec == Init /\ [][Next]_vars

---------------------------------------------------------------------------
(* What a document declares and references, read off the document itself.  *)

DeclaredNames(field) ==
    IF field.shape = "list" THEN Range(field.names) ELSE Range(Keys(field.items))

\* The declared names in the order the loader lists them.
DeclaredList(field) ==
    IF field.shape = "list" THEN field.names ELSE sorted(Keys(field.items))

DeclaredLocations(d) == DeclaredNames(d.locations)
DeclaredBoxes(d) == DeclaredNames(d.boxes)

\* The members of the stack at position i of the document's stack mapping.
StackMembers(d, i) == IF d.stacks[i][2] = NoneList THEN <<>> ELSE d.stacks[i][2]

\* How often box b is placed: as the held box, and as a member of any stack.
Placements(d, b) ==
    (IF d.holding = b THEN 1 ELSE 0)
    + Cardinality({<<i, j>> \in (1..Len(d.stacks)) \X (1..MaxStack + 1) :
                      j <= Len(StackMembers(d, i)) /\ StackMembers(d, i)[j] = b})

Loaded == pc \in {"loaded", "emitted"}
LoadRan == pc \in {"loaded", "emitted", "error"}

\* C1: load_ProblemSpec returns a specification only if every declared box is
\* placed exactly once (held, or a member of one stack, once); an input where a
\* declared box is placed twice or not at all is rejected with an error.
C1_PlacedExactlyOnce ==
    /\ Loaded => \A b \in DeclaredBoxes(data) : Placements(data, b) = 1
    /\ (LoadRan /\ \E b \in DeclaredBoxes(data) : Placements(data, b) # 1) => pc = "error"

\* C1 witness: an input whose box a is both held and in a stack was rejected by
\* validate_spec's duplicates test.
C1_Witness ==
    /\ pc = "error"
    /\ err = "dupes"
    /\ data.holding = nA
    /\ \E i \in 1..Len(data.stacks) : nA \in Range(StackMembers(data, i))

\* Some reference of the document names something undeclared for its role.
UndeclaredReference(d) ==
    LET locs == DeclaredLocations(d)
        boxes == DeclaredBoxes(d)
    IN  \/ d.robot_at \notin locs
        \/ d.holding # None /\ d.holding \notin boxes
        \/ \E i \in 1..Len(d.stacks) : d.stacks[i][1] \notin locs
        \/ \E i \in 1..Len(d.stacks) : \E b \in Range(StackMembers(d, i)) : b \notin boxes
        \/ \E i \in 1..Len(d.forbidden_stack) :
              d.forbidden_stack[i][1] \notin boxes \/ d.forbidden_stack[i][2] \notin boxes
        \/ \E i \in 1..Len(d.goal_on) :
              \/ d.goal_on[i][1] \notin boxes
              \/ d.goal_on[i][2] \notin boxes \cup locs
        \/ \E i \in 1..Len(d.goal_at) :
              d.goal_at[i][1] \notin boxes \/ d.goal_at[i][2] \notin locs
        \/ \E i \in 1..Len(d.goal_clear) : d.goal_clear[i] \notin boxes \cup locs

\* C9: load_ProblemSpec raises an error, and returns no specification, whenever
\* the robot position, the held box, a stack key (even of a null or empty
\* stack), a stack member, a forbidden pair or a goal entry names something
\* that is not declared for its role.
C9_UndeclaredRejected ==
    (LoadRan /\ UndeclaredReference(data)) => (pc = "error" /\ spec = EmptySpec)

\* C9 witness: a stack key that is no declared location, mapped to null, is the
\* only undeclared reference of a rejected input.
C9_Witness ==
    /\ pc = "error"
    /\ err = "stacks_location"
    /\ \E i \in 1..Len(data.stacks) :
          /\ data.stacks[i][1] \notin DeclaredLocations(data)
          /\ data.stacks[i][2] = NoneList
    /\ \A i \in 1..Len(data.stacks) : Range(StackMembers(data, i)) \subseteq DeclaredBoxes(data)
    /\ data.holding = None

\* The documented check (1 to 11) each raise belongs to.
CheckOfError(e) ==
    CASE e = "missing_field" -> 1
      [] e = "problem_name" -> 2
      [] e = "robot_at" -> 3
      [] e \in {"holding_type", "holding"} -> 4
      [] e \in {"stacks_location", "stack_names", "stack_box", "stack_dup"} -> 5
      [] e = "forbidden_stack" -> 6
      [] e \in {"goal_on_top", "goal_on_support"} -> 7
      [] e \in {"goal_at_box", "goal_at_location"} -> 8
      [] e = "goal_clear" -> 9
      [] e \in {"dupes", "missing"} -> 11
      [] OTHER -> 0

\* The documented checks a document violates.
ViolatedChecks(d) ==
    LET locs == DeclaredLocations(d)
        boxes == DeclaredBoxes(d)
    IN  {n \in 1..11 :
           CASE n = 1 -> d.absent # {}
             [] n = 2 -> ~is_name(d.problem_name)
             [] n = 3 -> d.robot_at \notin locs
             [] n = 4 -> d.holding # None /\ (~is_name(d.holding) \/ d.holding \notin boxes)
             [] n = 5 -> \E i \in 1..Len(d.stacks) :
                            \/ d.stacks[i][1] \notin locs
                            \/ \E b \in Range(StackMembers(d, i)) : b \notin boxes
                            \/ Cardinality(Range(StackMembers(d, i))) # Len(StackMembers(d, i))
             [] n = 6 -> \E i \in 1..Len(d.forbidden_stack) :
                            \/ d.forbidden_stack[i][1] \notin boxes
                            \/ d.forbidden_stack[i][2] \notin boxes
             [] n = 7 -> \E i \in 1..Len(d.goal_on) :
                            \/ d.goal_on[i][1] \notin boxes
                            \/ d.goal_on[i][2] \notin boxes \cup locs
             [] n = 8 -> \E i \in 1..Len(d.goal_at) :
                            d.goal_at[i][1] \notin boxes \/ d.goal_at[i][2] \notin locs
             [] n = 9 -> \E i \in 1..Len(d.goal_clear) : d.goal_clear[i] \notin boxes \cup locs
             [] n = 11 -> \E b \in boxes : Placements(d, b) # 1
             [] OTHER -> FALSE}

Lowest(S) == CHOOSE n \in S : \A m \in S : n <= m

\* C10: validation is fail-fast in the documented order: the error raised is
\* the one of the lowest-numbered check the input violates; a box twice in one
\* stack belongs to check 5 and is reported by the stack's own error, before
\* checks 6 to 9 and 11.
C10_LowestCheckFirst ==
    (pc = "error" /\ err \notin {"names_list", "names_values"})
        => /\ ViolatedChecks(data) # {}
           /\ CheckOfError(err) = Lowest(ViolatedChecks(data))

---------------------------------------------------------------------------
(* Inputs that place every box: for the derivation of the initial state.   *)
(* Boxes are named a, b, c, ...; locations b and l, so that from the       *)
(* second box on a box and a location share the name b.                    *)

\* The most boxes a document declares.
MaxBoxes == 3
\* The longest list of locations a document declares.
MaxLocs == 2

BoxName(i) == <<96 + i>>
BoxList(n) == [i \in 1..n |-> BoxName(i)]
LocNames == {nB, nL}

Perms(S) == {q \in [1..Cardinality(S) -> S] : \A i, j \in 1..Cardinality(S) : q[i] = q[j] => i = j}

\* How a location without boxes is written in the stack mapping.
EmptyKinds == {"absent", "null", "empty"}

StackEntry(key, stack, kind) ==
    IF stack # <<>> THEN << <<key, stack>> >>
    ELSE IF kind = "absent" THEN <<>>
    ELSE IF kind = "null" THEN << <<key, NoneList>> >>
    ELSE << <<key, <<>>>> >>

\* The stack mappings that put the boxes of q, in this order, on keys[1] (the
\* first k of them) and keys[2] (the rest).
Arrangements(rest) ==
    {StackEntry(keys[1], SubSeq(q, 1, k), kinds[1])
       \o StackEntry(keys[2], SubSeq(q, k + 1, Len(q)), kinds[2]) :
        q \in Perms(rest), k \in 0..Cardinality(rest),
        keys \in Perms(LocNames), kinds \in EmptyKinds \X EmptyKinds}

LocationDecls ==
    {ListOf(l) : l \in Lists(LocNames, 1, MaxLocs)}
    \cup {DictOf(<< <<nL, "null">>, <<nB, "black">> >>)}

BoxDecls(n) ==
    {ListOf(BoxList(n)),
     DictOf([i \in 1..n |-> <<BoxName(n + 1 - i), IF i = 1 THEN "white" ELSE "absent">>])}

\* The documents that declare n boxes and the locations of one of decls, and
\* place every box once: held, or in a stack.
PlacedDocsOf(n, decls) ==
    UNION {{Doc(locs, boxes, locs.names[1], h, st) :
               locs \in {l \in decls : l.shape = "list"},
               boxes \in BoxDecls(n), st \in Arrangements(Range(BoxList(n)) \ {h})}
           \cup {Doc(locs, boxes, nL, h, st) :
                   locs \in {l \in decls : l.shape = "dict"},
                   boxes \in BoxDecls(n), st \in Arrangements(Range(BoxList(n)) \ {h})} :
           h \in {None} \cup Range(BoxList(n))}

\* The documents that declare up to m boxes.
PlacedDocs(m) == UNION {PlacedDocsOf(n, LocationDecls) : n \in 1..m}

FactsInit == \E d \in PlacedDocs(MaxBoxes) : StartOn(d, <<>>)

FactsSpec == FactsInit /\ [][Next]_vars

---------------------------------------------------------------------------
(* The derived facts, read as text.                                        *)

\* The tokens of a fact "(pred arg ...)": its predicate, then its arguments.
FactTokens(f) == split(SubSeq(f, 2, Len(f) - 1))

IsStackFact(f) == FactTokens(f)[1] \in {s_box_at, s_on, s_clear}

SameBag(s, t) ==
    /\ Len(s) = Len(t)
    /\ \A x \in Range(s) \cup Range(t) : count(s, x) = count(t, x)

\* C2: in the output of init_facts for an accepted specification, every
\* declared box in the stack of location L has exactly one box-at fact, and
\* that fact names L; the held box has no box-at fact.
C2_BoxAtOncePerStackedBox ==
    pc = "emitted" =>
        LET T == [j \in 1..Len(facts) |-> FactTokens(facts[j])]
            At(b) == {j \in 1..Len(facts) : T[j][1] = s_box_at /\ T[j][2] = b}
        IN  /\ \A i \in 1..Len(spec.stacks) :
                  \A b \in Range(spec.stacks[i][2]) \cap Range(spec.boxes) :
                      /\ Cardinality(At(b)) = 1
                      /\ \A j \in At(b) : T[j] = <<s_box_at, b, spec.stacks[i][1]>>
            /\ spec.holding # None => At(spec.holding) = {}

\* C2 witness: a specification with a held box and a stack of two boxes was
\* converted.
C2_Witness ==
    /\ pc = "emitted"
    /\ spec.holding # None
    /\ \E i \in 1..Len(spec.stacks) : Len(spec.stacks[i][2]) = 2

\* The facts the stack [b0 (top), ..., b(k-1)] at location l should yield.
ExpectedStackFacts(l, stack) ==
    [i \in 1..Len(stack) |-> atom(s_box_at, <<stack[i], l>>)]
    \o [i \in 1..(Len(stack) - 1) |-> atom(s_on, <<stack[i], stack[i + 1]>>)]
    \o <<atom(s_on, <<stack[Len(stack)], l>>), atom(s_clear, <<stack[1]>>)>>

\* How many facts the stacks before the i-th yield.
RECURSIVE StackOffset(_, _)
StackOffset(stacks, i) ==
    IF i = 1 THEN 0
    ELSE StackOffset(stacks, i - 1) + 2 * Len(stacks[i - 1][2]) + 1

\* The box-at, on and clear facts of the output are one run per stack, in the
\* mapping's order, each run being exactly the stack's facts; after the runs
\* come only clear facts of locations without boxes.
StackRuns ==
    LET sf == SelectSeq(facts, IsStackFact)
        n == Len(spec.stacks)
        end == StackOffset(spec.stacks, n + 1)
    IN  /\ Len(sf) >= end
        /\ \A i \in 1..n :
              LET o == StackOffset(spec.stacks, i)
                  k == Len(spec.stacks[i][2])
              IN  SameBag(SubSeq(sf, o + 1, o + 2 * k + 1),
                          ExpectedStackFacts(spec.stacks[i][1], spec.stacks[i][2]))
        /\ \A j \in (end + 1)..Len(sf) :
              \E l \in Range(spec.locations) \ {spec.stacks[i][1] : i \in 1..n} :
                  sf[j] = atom(s_clear, <<l>>)

\* C3 as stated: each non-empty stack of k boxes at L yields exactly its k
\* box-at facts, k-1 on facts between adjacent boxes, (on bottom L) and
\* (clear top); and (clear L) is not emitted for the location of a one-box stack.
C3_StackFactsNoClearL ==
    pc = "emitted" =>
        /\ StackRuns
        /\ \A i \in 1..Len(spec.stacks) :
              Len(spec.stacks[i][2]) = 1
                  => \A j \in 1..Len(facts) : facts[j] # atom(s_clear, <<spec.stacks[i][1]>>)

\* What the code does instead of C3: the same, but (clear L) of a one-box
\* stack's location L is in the output exactly when a box that is itself named
\* L is the top of a stack.
StackFactsAsEmitted ==
    pc = "emitted" =>
        /\ StackRuns
        /\ \A i \in 1..Len(spec.stacks) :
              Len(spec.stacks[i][2]) = 1
                  => ((\E j \in 1..Len(facts) : facts[j] = atom(s_clear, <<spec.stacks[i][1]>>))
                        <=> \E m \in 1..Len(spec.stacks) :
                               spec.stacks[m][2][1] = spec.stacks[i][1])

\* Whether the document gives location l a non-empty stack.
HasBoxes(d, l) ==
    \E i \in 1..Len(d.stacks) : d.stacks[i][1] = l /\ StackMembers(d, i) # <<>>

\* How often the document declares the location name l.
Declarations(d, l) ==
    IF d.locations.shape = "list" THEN count(d.locations.names, l) ELSE 1

\* C4 as stated: a declared location absent from the stack mapping, or mapped
\* to an empty list or null, yields exactly one (clear location) fact, and a
\* location with a non-empty stack yields none.
C4_OneClearPerEmptyLocation ==
    pc = "emitted" =>
        \A l \in DeclaredLocations(data) :
            count(facts, atom(s_clear, <<l>>)) = IF HasBoxes(data, l) THEN 0 ELSE 1

\* What the code does instead of C4: a location without boxes yields one
\* (clear location) fact per declaration of its name, a location with a
\* non-empty stack none; the only other (clear X) fact with a location's name X
\* is that of a box named X on top of a stack.
ClearFactsAsEmitted ==
    pc = "emitted" =>
        \A l \in DeclaredLocations(data) :
            count(facts, atom(s_clear, <<l>>))
              = (IF HasBoxes(data, l) THEN 0 ELSE Declarations(data, l))
                + (IF \E i \in 1..Len(data.stacks) :
                         StackMembers(data, i) # <<>> /\ StackMembers(data, i)[1] = l
                   THEN 1 ELSE 0)

---------------------------------------------------------------------------
(* The emitted text, read back.                                            *)

\* The text cut at every line feed.
RECURSIVE TextLines(_)
TextLines(t) ==
    IF \A i \in 1..Len(t) : t[i] # NL THEN <<t>>
    ELSE LET n == CHOOSE n \in 1..Len(t) : t[n] = NL /\ \A i \in 1..(n - 1) : t[i] # NL
         IN  <<SubSeq(t, 1, n - 1)>> \o TextLines(SubSeq(t, n + 1, Len(t)))

\* The lines between the line "  (:init" and the line "  )" that closes it.
InitBlock(t) ==
    LET ls == TextLines(t)
        a == CHOOSE i \in 1..Len(ls) : ls[i] = s_init
        b == CHOOSE i \in (a + 1)..Len(ls) :
                 ls[i] = s_close /\ \A j \in (a + 1)..(i - 1) : ls[j] # s_close
    IN  SubSeq(ls, a + 1, b - 1)

\* The formula of the line "  (:goal <formula>)".
GoalBlock(t) ==
    LET ls == TextLines(t)
        g == ls[CHOOSE i \in 1..Len(ls) : startswith(ls[i], s_goal)]
    IN  SubSeq(g, Len(s_goal) + 1, Len(g) - 1)

---------------------------------------------------------------------------
(* Two conversions of the same problem, listed in two orders.              *)

\* The same list in every order.
Reordered(s) == {[i \in 1..Len(s) |-> s[q[i]]] : q \in Perms(1..Len(s))}

\* The same document with its locations, boxes, stack-mapping entries and
\* forbidden pairs listed in every order.
Reorderings(d) ==
    {[d EXCEPT !.locations = [@ EXCEPT !.names = ln, !.items = li],
               !.boxes = [@ EXCEPT !.names = bn, !.items = bi],
               !.stacks = st, !.forbidden_stack = fs] :
        ln \in Reordered(d.locations.names), li \in Reordered(d.locations.items),
        bn \in Reordered(d.boxes.names), bi \in Reordered(d.boxes.items),
        st \in Reordered(d.stacks), fs \in Reordered(d.forbidden_stack)}

\* The most boxes of a document converted in two orders.
MaxReorderBoxes == 2

\* Documents with two lists in the stack mapping and two forbidden pairs.
ReorderDocs ==
    {[d EXCEPT !.forbidden_stack = << <<BoxName(1), BoxName(2)>>,
                                      <<BoxName(2), BoxName(1)>> >>] :
        d \in {x \in UNION {PlacedDocsOf(n, {ListOf(<<nB, nL>>), ListOf(<<nL, nB, nL>>),
                                             DictOf(<< <<nL, "white">>, <<nB, "black">> >>)}) :
                            n \in 2..MaxReorderBoxes} :
                  Len(x.stacks) = 2 /\ x.stacks[1][2] # NoneList /\ x.stacks[2][2] # NoneList}}

ReorderInit == \E d \in ReorderDocs : \E d2 \in Reorderings(d) : StartOn(d, <<d2>>)

ReorderNext == Load \/ Emit \/ NextInput

ReorderSpec == ReorderInit /\ [][ReorderNext]_vars

\* C5: two accepted specifications that differ only in the order in which
\* locations, boxes, stack-mapping entries and forbidden pairs are listed are
\* emitted with the same init block, character for character.
C5_InitBlockIgnoresOrder ==
    (pc = "emitted" /\ pending = <<>>) => InitBlock(pddl) = InitBlock(prev_pddl)

\* C5 witness: the second conversion ended, its document listing the boxes and
\* the stack-mapping entries in another order than the first, and init_facts
\* gave the two conversions their facts in different orders.
C5_Witness ==
    /\ pc = "emitted"
    /\ pending = <<>>
    /\ InitBlock(prev_pddl) # [i \in 1..Len(facts) |-> s_indent \o facts[i]]
    /\ Len(InitBlock(pddl)) >= 8

---------------------------------------------------------------------------
(* Goals.                                                                  *)

\* The longest list of each kind of goal entry.
MaxGoal == 2

\* Raw formula fragments: "(x)" and "(not (clear a))".
s_frag_x == <<40, 120, 41>>
s_frag_not == <<40, 110, 111, 116, 32, 40, 99, 108, 101, 97, 114, 32, 97, 41, 41>>

\* Documents that vary the goal, over one valid initial state.
GoalDocs ==
    {[Doc(ListOf(<<nL, nM>>), ListOf(<<nA, nB>>), nL, None, << <<nL, <<nA, nB>>>> >>)
        EXCEPT !.goal_on = gon, !.goal_at = gat, !.goal_clear = gcl, !.goal_pddl = gp] :
        gon \in Lists({<<nA, nB>>, <<nB, nM>>}, 0, MaxGoal),
        gat \in Lists({<<nA, nL>>, <<nB, nM>>}, 0, MaxGoal),
        gcl \in Lists({nA, nM}, 0, MaxGoal),
        gp \in Lists({s_frag_x, s_frag_not}, 0, MaxGoal)}

GoalInit == \E d \in GoalDocs : StartOn(d, <<>>)

GoalSpec == GoalInit /\ [][Next]_vars

\* The goal's atoms as the document lists them: the on pairs, then the box-at
\* pairs, then the clear entries, then the raw fragments.
DocGoalAtoms(d) ==
    [i \in 1..Len(d.goal_on) |->
        <<LP>> \o s_on \o <<SP>> \o d.goal_on[i][1] \o <<SP>> \o d.goal_on[i][2] \o <<RP>>]
    \o [i \in 1..Len(d.goal_at) |->
        <<LP>> \o s_box_at \o <<SP>> \o d.goal_at[i][1] \o <<SP>> \o d.goal_at[i][2] \o <<RP>>]
    \o [i \in 1..Len(d.goal_clear) |-> <<LP>> \o s_clear \o <<SP>> \o d.goal_clear[i] \o <<RP>>]
    \o d.goal_pddl

\* C6: the goal formula is "(and)" for no atoms, the atom itself for one, and
\* "(and a1 a2 ...)" for two or more, the atoms being the on atoms in input
\* order, then the box-at atoms, then the clear atoms, then the raw fragments.
C6_GoalFormula ==
    pc = "emitted" =>
        LET A == DocGoalAtoms(data)
            g == GoalBlock(pddl)
        IN  /\ Len(A) = 0 => g = <<LP>> \o s_and \o <<RP>>
            /\ Len(A) = 1 => g = A[1]
            /\ Len(A) >= 2 => g = <<LP>> \o s_and \o Flatten([i \in 1..Len(A) |-> <<SP>> \o A[i]])
                                    \o <<RP>>

\* C6 witness: a goal of one atom was emitted unwrapped.
C6_Witness ==
    /\ pc = "emitted"
    /\ Len(DocGoalAtoms(data)) = 1
    /\ GoalBlock(pddl) = <<LP>> \o s_clear \o <<SP>> \o nM \o <<RP>>

---------------------------------------------------------------------------
(* The plan parser (src lines 404-461).                                    *)

\* str.splitlines(): the text cut at every line boundary ("\r\n" being one
\* boundary), without an empty last line.
LineBreaks == {10, 11, 12, 13, 28, 29, 30, 133, 8232, 8233}

RECURSIVE splitlines(_)
splitlines(t) ==
    IF t = <<>> THEN <<>>
    ELSE IF \A i \in 1..Len(t) : t[i] \notin LineBreaks THEN <<t>>
    ELSE LET n == CHOOSE n \in 1..Len(t) :
                     t[n] \in LineBreaks /\ \A i \in 1..(n - 1) : t[i] \notin LineBreaks
             m == IF t[n] = 13 /\ n < Len(t) /\ t[n + 1] = NL THEN n + 1 ELSE n
         IN  <<SubSeq(t, 1, n - 1)>> \o splitlines(SubSeq(t, m + 1, Len(t)))

IsDigit(c) == c \in 48..57

\* The first index from j on that holds no white space (Len(s) + 1: none).
SkipSpaces(s, j) ==
    CHOOSE k \in j..(Len(s) + 1) :
        /\ \A i \in j..(k - 1) : IsSpace(s[i])
        /\ k = Len(s) + 1 \/ ~IsSpace(s[k])

\* The group of cost\s*=\s*([0-9]+) matched at index i of s (<<>>: no match).
cost_match_at(s, i) ==
    IF ~(i + 3 <= Len(s) /\ SubSeq(s, i, i + 3) = s_cost) THEN <<>>
    ELSE LET e == SkipSpaces(s, i + 4)
         IN  IF ~(e <= Len(s) /\ s[e] = EQ) THEN <<>>
             ELSE LET d == SkipSpaces(s, e + 1)
                      z == CHOOSE k \in d..(Len(s) + 1) :
                               /\ \A j \in d..(k - 1) : IsDigit(s[j])
                               /\ k = Len(s) + 1 \/ ~IsDigit(s[k])
                  IN  SubSeq(s, d, z - 1)

\* re.search(r"cost\s*=\s*([0-9]+)", s): the group of the leftmost match.
cost_search(s) ==
    LET hits == {i \in 1..Len(s) : cost_match_at(s, i) # <<>>}
    IN  IF hits = {} THEN <<>>
        ELSE cost_match_at(s, CHOOSE i \in hits : \A j \in hits : i <= j)

\* int(str of decimal digits)
RECURSIVE int(_)
int(ds) ==
    IF ds = <<>> THEN 0
    ELSE 10 * int(SubSeq(ds, 1, Len(ds) - 1)) + (ds[Len(ds)] - 48)

\* src 446-450 with the first cost found kept
next_cost_first_wins(old, line) ==
    IF old # NoCost THEN old
    ELSE IF cost_search(line) # <<>> THEN int(cost_search(line)) ELSE old

\* src 446-450: the cost after a comment line
next_cost(old, line) ==
    IF cost_search(line) # <<>> THEN int(cost_search(line)) ELSE old

\* parse_action_atom with every token taken as an argument
parse_action_atom_args_all(line0) ==
    LET line == strip(line0)
    IN  IF ~(startswith(line, <<LP>>) /\ endswith(line, <<RP>>))
        THEN [err |-> "not_atom", action |-> <<>>, args |-> <<>>]
        ELSE LET inner == strip(SubSeq(line, 2, Len(line) - 1))
             IN  IF inner = <<>>
                 THEN [err |-> "empty_atom", action |-> <<>>, args |-> <<>>]
                 ELSE [err |-> "none", action |-> split(inner)[1], args |-> split(inner)]

\* src 404-426: [err |-> the raise ("none": it returned), action, args]
parse_action_atom(line0) ==
    LET line == strip(line0)
    IN  IF ~(startswith(line, <<LP>>) /\ endswith(line, <<RP>>))
        THEN [err |-> "not_atom", action |-> <<>>, args |-> <<>>]
        ELSE LET inner == strip(SubSeq(line, 2, Len(line) - 1))
             IN  IF inner = <<>>
                 THEN [err |-> "empty_atom", action |-> <<>>, args |-> <<>>]
                 ELSE [err |-> "none", action |-> split(inner)[1], args |-> Tail(split(inner))]

\* src 433-440: the locals are set and the text is cut into lines
ParseStart ==
    /\ ppc = "start"
    /\ steps' = <<>>
    /\ cost' = NoCost
    /\ raws' = splitlines(plan_text)
    /\ idx' = 1
    /\ ppc' = "loop"
    /\ UNCHANGED <<plan_text, origin, first>>
    /\ UNCHANGED conv_vars

\* src 440-459: one iteration of the loop over the lines
ParseLine ==
    /\ ppc = "loop"
    /\ idx <= Len(raws)
    /\ LET line == strip(raws[idx])
           a == parse_action_atom(line)
       IN  IF line = <<>>
           THEN /\ ppc' = "loop"
                /\ UNCHANGED <<steps, cost>>
           ELSE IF startswith(line, <<SEMI>>)
           THEN /\ cost' = next_cost(cost, line)
                /\ ppc' = "loop"
                /\ UNCHANGED steps
           ELSE IF startswith(line, <<LP>>) /\ endswith(line, <<RP>>)
           THEN IF a.err = "none"
                THEN /\ steps' = Append(steps, [action |-> a.action, args |-> a.args])
                     /\ ppc' = "loop"
                     /\ UNCHANGED cost
                ELSE /\ ppc' = "raised"
                     /\ UNCHANGED <<steps, cost>>
           ELSE /\ ppc' = "loop"
                /\ UNCHANGED <<steps, cost>>
    /\ idx' = idx + 1
    /\ UNCHANGED <<plan_text, origin, raws, first>>
    /\ UNCHANGED conv_vars

\* src 461: return steps, cost
ParseReturn ==
    /\ ppc = "loop"
    /\ idx > Len(raws)
    /\ ppc' = "returned"
    /\ UNCHANGED <<plan_text, origin, raws, idx, steps, cost, first>>
    /\ UNCHANGED conv_vars

\* parse_fd_plan_text is called once more on the same text; the result of the
\* first call is kept by the caller.
ParseAgain ==
    /\ ppc = "returned"
    /\ first = <<>>
    /\ first' = <<[plan |-> steps, cost |-> cost]>>
    /\ ppc' = "start"
    /\ UNCHANGED <<plan_text, origin, raws, idx, steps, cost>>
    /\ UNCHANGED conv_vars

PlanNext == ParseStart \/ ParseLine \/ ParseReturn

RoundTripNext == ParseStart \/ ParseLine \/ ParseReturn \/ ParseAgain

IdleConverter ==
    /\ data = Doc(ListOf(<<>>), ListOf(<<>>), <<>>, None, <<>>)
    /\ pending = <<>>
    /\ pc = "idle"
    /\ err = "none"
    /\ spec = EmptySpec
    /\ facts = <<>>
    /\ pddl = <<>>
    /\ prev_pddl = <<>>

\* The parser is handed the text t, written from o.
ParseOf(t, o) ==
    /\ plan_text = t
    /\ origin = o
    /\ ppc = "start"
    /\ raws = <<>>
    /\ idx = 0
    /\ steps = <<>>
    /\ cost = NoCost
    /\ first = <<>>
    /\ IdleConverter

---------------------------------------------------------------------------
(* Plan texts written line by line.  A line is described by its kind and,  *)
(* if it is an action line, its action and arguments, if a comment with a  *)
(* cost, that cost, and by its text.                                       *)

\* The most lines of a plan text.
MaxLines == 3

PlanLine(kind, action, args, n, text) ==
    [kind |-> kind, action |-> action, args |-> args, n |-> n, text |-> text]

PlanLines ==
    {\* "(u b l)"
     PlanLine("action", <<117>>, << <<98>>, <<108>> >>, 0, <<40, 117, 32, 98, 32, 108, 41>>),
     \* "  ( m  b )  "
     PlanLine("action", <<109>>, << <<98>> >>, 0,
              <<32, 32, 40, 32, 109, 32, 32, 98, 32, 41, 32, 32>>),
     \* "(n)"
     PlanLine("action", <<110>>, <<>>, 0, <<40, 110, 41>>),
     \* "(cost = 5)": an action named cost
     PlanLine("action", s_cost, << <<61>>, <<53>> >>, 0,
              <<40, 99, 111, 115, 116, 32, 61, 32, 53, 41>>),
     \* "; cost = 7 (unit cost)"
     PlanLine("cost", <<>>, <<>>, 7,
              <<59, 32, 99, 111, 115, 116, 32, 61, 32, 55, 32, 40, 117, 110, 105, 116, 32,
                99, 111, 115, 116, 41>>),
     \* ";cost=12"
     PlanLine("cost", <<>>, <<>>, 12, <<59, 99, 111, 115, 116, 61, 49, 50>>),
     \* "; cost 3": a comment without the cost pattern
     PlanLine("comment", <<>>, <<>>, 0, <<59, 32, 99, 111, 115, 116, 32, 51>>),
     \* "" and "  "
     PlanLine("blank", <<>>, <<>>, 0, <<>>),
     PlanLine("blank", <<>>, <<>>, 0, <<32, 32>>),
     \* "cost = 9": the cost pattern on a line that is no comment
     PlanLine("other", <<>>, <<>>, 0, <<99, 111, 115, 116, 32, 61, 32, 57>>),
     \* "(a b" and "a b)"
     PlanLine("other", <<>>, <<>>, 0, <<40, 97, 32, 98>>),
     PlanLine("other", <<>>, <<>>, 0, <<97, 32, 98, 41>>),
     \* "( )" and "()": atoms without a name
     PlanLine("noname", <<>>, <<>>, 0, <<40, 32, 41>>),
     PlanLine("noname", <<>>, <<>>, 0, <<40, 41>>)}

PlanInit ==
    \E o \in Lists(PlanLines, 0, MaxLines) : \E end \in {<<>>, <<NL>>} :
        ParseOf(join(<<NL>>, [i \in 1..Len(o) |-> o[i].text]) \o end, o)

PlanSpec == PlanInit /\ [][PlanNext]_vars

RECURSIVE LinesSteps(_)
LinesSteps(o) ==
    IF o = <<>> THEN <<>>
    ELSE LinesSteps(SubSeq(o, 1, Len(o) - 1))
         \o (IF o[Len(o)].kind = "action"
             THEN <<[action |-> o[Len(o)].action, args |-> o[Len(o)].args]>>
             ELSE <<>>)

LinesCost(o) ==
    LET cs == {i \in 1..Len(o) : o[i].kind = "cost"}
    IN  IF cs = {} THEN NoCost ELSE o[CHOOSE i \in cs : \A j \in cs : j <= i].n

\* C7: the parser takes the lines in order: after the lines read so far, and
\* on return, the steps are the action lines in input order, each as its name
\* and ordered arguments, and the cost is that of the last comment line with a
\* cost pattern (none: null); blank lines, comments and a cost pattern on a
\* line that is no comment change nothing.
C7_StepsInOrderLastCost ==
    /\ ppc = "loop" =>
          LET read == SubSeq(origin, 1, IF idx - 1 < Len(origin) THEN idx - 1 ELSE Len(origin))
          IN  steps = LinesSteps(read) /\ cost = LinesCost(read)
    /\ ppc = "returned" => steps = LinesSteps(origin) /\ cost = LinesCost(origin)

\* C7 witness: the parser returned from a text with an action line, then two
\* comment lines with different costs.
C7_Witness ==
    /\ ppc = "returned"
    /\ Len(origin) = 3
    /\ origin[1].kind = "action"
    /\ origin[2].kind = "cost"
    /\ origin[3].kind = "cost"
    /\ origin[2].n # origin[3].n
    /\ cost = origin[3].n

\* A non-blank line, no comment, that starts with "(" or ends with ")" but
\* not both.
Unbalanced(t) ==
    LET line == strip(t)
    IN  /\ line # <<>>
        /\ ~startswith(line, <<SEMI>>)
        /\ startswith(line, <<LP>>) # endswith(line, <<RP>>)

\* A line in parentheses with nothing but white space between them.
Nameless(t) ==
    LET line == strip(t)
    IN  /\ startswith(line, <<LP>>)
        /\ endswith(line, <<RP>>)
        /\ Len(line) >= 2
        /\ strip(SubSeq(line, 2, Len(line) - 1)) = <<>>

\* C11: the parser returns no plan result for a text with a line whose
\* wrapping parentheses are unbalanced or with an atom that has no name.
C11_MalformedLineRejected ==
    (\E i \in 1..Len(origin) : Unbalanced(origin[i].text) \/ Nameless(origin[i].text))
        => ppc # "returned"

\* What the parser does for an atom that has no name: it returns no plan
\* result.  A line with unbalanced parentheses it passes over.
NamelessAtomRejected ==
    (\E i \in 1..Len(origin) : Nameless(origin[i].text)) => ppc # "returned"

\* The parser returned from a text with a line of unbalanced parentheses.
UnbalancedLinePassedOver ==
    /\ ppc = "returned"
    /\ \E i \in 1..Len(origin) : Unbalanced(origin[i].text)

---------------------------------------------------------------------------
(* Plan texts rendered from a plan result.                                 *)

\* The most steps of a rendered plan result.
MaxSteps == 2

Step(action, args) == [action |-> action, args |-> args]

\* Steps with tokens "u", "b", "l", "n", ";b", "cost=5", "cost", "=", "5", "m", "b1".
PlanSteps ==
    {Step(<<117>>, << <<98>>, <<108>> >>),
     Step(<<110>>, <<>>),
     Step(<<59, 98>>, << <<99, 111, 115, 116, 61, 53>> >>),
     Step(s_cost, << <<61>>, <<53>> >>),
     Step(<<109>>, << <<98, 49>> >>)}

PlanCosts == {NoCost, 0, 7, 120}

\* The decimal digits of a natural number.
RECURSIVE Digits(_)
Digits(n) == IF n < 10 THEN <<48 + n>> ELSE Digits(n \div 10) \o <<48 + (n % 10)>>

\* "(name arg1 ... argn)"
RenderStep(st) == <<LP>> \o join(<<SP>>, <<st.action>> \o st.args) \o <<RP>>

\* "; cost = N"
RenderCost(n) == <<SEMI, SP>> \o s_cost \o <<SP, EQ, SP>> \o Digits(n)

\* One line per step and, if the cost is not null, the cost line after the
\* first k steps.
RenderPlan(r, k) ==
    LET ls == [i \in 1..Len(r.plan) |-> RenderStep(r.plan[i])]
    IN  join(<<NL>>,
             IF r.cost = NoCost THEN ls
             ELSE SubSeq(ls, 1, k) \o <<RenderCost(r.cost)>> \o SubSeq(ls, k + 1, Len(ls)))

RoundTripInit ==
    \E p \in Lists(PlanSteps, 0, MaxSteps) : \E c \in PlanCosts : \E k \in 0..Len(p) :
        \E end \in {<<>>, <<NL>>} :
            ParseOf(RenderPlan([plan |-> p, cost |-> c], k) \o end, [plan |-> p, cost |-> c])

RoundTripSpec == RoundTripInit /\ [][RoundTripNext]_vars

\* C8: a plan result rendered as text, one "(name arg1 ... argn)" line per
\* step and one "; cost = N" line if the cost is not null, parses back to the
\* same steps in the same order and the same cost, and a second parse of the
\* same text returns what the first returned.
C8_RoundTrip ==
    ppc = "returned" =>
        /\ steps = origin.plan
        /\ cost = origin.cost
        /\ first # <<>> => first[1] = [plan |-> steps, cost |-> cost]

\* C8 witness: a result of two steps and cost 120 was rendered and parsed
\* twice.
C8_Witness ==
    /\ ppc = "returned"
    /\ first # <<>>
    /\ Len(origin.plan) = 2
    /\ origin.cost = 120
    /\ Len(steps) = 2

---------------------------------------------------------------------------
(* Colors.                                                                 *)

\* What a declaration gives as an entity's properties: null, an object
\* without color, and objects with color "black", "white", "red" and "Black".
ColorValues == {"null", "absent", "black", "white", "red", "Black"}

\* Documents that vary the properties of up to two locations (b, l) and up to
\* two boxes (a, b); the boxes are one stack on the robot's location.
ColorDocs ==
    {Doc(locs, boxes, DeclaredList(locs)[1], None,
         << <<DeclaredList(locs)[1], DeclaredList(boxes)>> >>) :
        locs \in {DictOf(it) : it \in Dicts({nB, nL}, ColorValues) \ {<<>>}}
                   \cup {ListOf(<<nB, nL>>), ListOf(<<nL>>)},
        boxes \in {DictOf(it) : it \in Dicts({nA, nB}, ColorValues) \ {<<>>}}
                   \cup {ListOf(<<nA, nB>>)}}

ColorInit == \E d \in ColorDocs : StartOn(d, <<>>)

ColorSpec == ColorInit /\ [][Next]_vars

\* The color the declaration gives the entity named n ("absent": none).
ColorOf(field, n) ==
    IF field.shape = "list" THEN "absent"
    ELSE IF Get(field.items, n) = "null" THEN "absent"
    ELSE Get(field.items, n)

\* The declared entities, locations and boxes, as <<kind, name, color>>.
Entities(d) ==
    {<<"location", n, ColorOf(d.locations, n)>> : n \in DeclaredLocations(d)}
    \cup {<<"box", n, ColorOf(d.boxes, n)>> : n \in DeclaredBoxes(d)}

ColorPreds == {s_black, s_white}

PredOfColor(c) == IF c = "black" THEN s_black ELSE s_white

\* C12: for an accepted specification the color facts are, for every name and
\* each of black and white, one fact if a declared location or box of that
\* name has that color and none otherwise, also when a location and a box
\* have the same name.
C12_ColorFactPerColoredEntity ==
    pc = "emitted" =>
        /\ \A n \in DeclaredLocations(data) \cup DeclaredBoxes(data) :
              \A c \in {"black", "white"} :
                  count(facts, atom(PredOfColor(c), <<n>>))
                    = IF \E e \in Entities(data) : e[2] = n /\ e[3] = c THEN 1 ELSE 0
        /\ \A j \in 1..Len(facts) :
              FactTokens(facts[j])[1] \in ColorPreds
                  => FactTokens(facts[j])[2] \in DeclaredLocations(data) \cup DeclaredBoxes(data)

\* What the code does: the color of a name is that of the box of the name, if
\* there is one, and that of the location otherwise.
ColorFactsAsEmitted ==
    pc = "emitted" =>
        /\ \A n \in DeclaredLocations(data) \cup DeclaredBoxes(data) :
              LET col == IF n \in DeclaredBoxes(data) THEN ColorOf(data.boxes, n)
                         ELSE ColorOf(data.locations, n)
              IN  \A c \in {"black", "white"} :
                      count(facts, atom(PredOfColor(c), <<n>>)) = IF col = c THEN 1 ELSE 0
        /\ \A j \in 1..Len(facts) :
              FactTokens(facts[j])[1] \in ColorPreds
                  => FactTokens(facts[j])[2] \in DeclaredLocations(data) \cup DeclaredBoxes(data)

\* A specification was converted in which a location is black and a box of
\* the same name has no color.
ColorLostToBox ==
    /\ pc = "emitted"
    /\ <<"location", nB, "black">> \in Entities(data)
    /\ <<"box", nB, "absent">> \in Entities(data)
    /\ count(facts, atom(s_black, <<nB>>)) = 0

\* C12 restricted to documents without a name that is both a location and a box.
ColorFactsDisjointNames ==
    (DeclaredLocations(data) \cap DeclaredBoxes(data) = {}) => C12_ColorFactPerColoredEntity

---------------------------------------------------------------------------
(* Consistency of the derived initial state.                               *)

\* The stack mappings that put the boxes of rest, in any order, on two
\* locations of names, the first boxes on one and the others on the other.
SplitStacks(rest, names) ==
    {StackEntry(keys[1], SubSeq(q, 1, k), kinds[1])
       \o StackEntry(keys[2], SubSeq(q, k + 1, Len(q)), kinds[2]) :
        q \in Perms(rest), k \in 0..Cardinality(rest),
        keys \in Perms(names),
        kinds \in {<<"absent", "absent">>, <<"null", "empty">>, <<"empty", "null">>}}

\* Documents with locations named l and m and up to k boxes named a, b, ...:
\* every box is placed once, held or in a stack.
DisjointDocs(k) ==
    UNION {UNION {{Doc(locs, boxes, DeclaredList(locs)[1], h, st) :
                      locs \in {ListOf(<<nL, nM>>), ListOf(<<nM, nL, nM>>),
                                DictOf(<< <<nM, "null">>, <<nL, "black">> >>)},
                      boxes \in BoxDecls(n),
                      st \in SplitStacks(Range(BoxList(n)) \ {h}, {nL, nM})} :
                  h \in {None} \cup Range(BoxList(n))} :
           n \in 1..k}

\* These, and documents with a location and a box both named b.
ConsistentInit ==
    \E d \in DisjointDocs(MaxBoxes) \cup PlacedDocsOf(2, {ListOf(<<nB, nL>>)}) : StartOn(d, <<>>)

ConsistentSpec == ConsistentInit /\ [][Next]_vars

\* The boxes the document puts in stacks.
StackedBoxes(d) == UNION {Range(StackMembers(d, i)) : i \in 1..Len(d.stacks)}

\* The consistency of a list of facts, each given as its tokens, for the
\* document d: (i) a declared location or stacked box x has a (clear x) fact
\* if and only if no (on y x) fact exists; (ii) every stacked box is the first
\* argument of exactly one on fact, and every box and location the second
\* argument of at most one; (iii) the held box is in no on, box-at or clear
\* fact, and exactly one of (hands-empty) and (holding b) is present.
Consistent(T, d) ==
    LET J == 1..Len(T)
        OnTop(x) == {j \in J : T[j][1] = s_on /\ T[j][3] = x}
        OnUnder(b) == {j \in J : T[j][1] = s_on /\ T[j][2] = b}
    IN  /\ \A x \in DeclaredLocations(d) \cup StackedBoxes(d) :
              (\E j \in J : T[j] = <<s_clear, x>>) <=> OnTop(x) = {}
        /\ \A b \in StackedBoxes(d) : Cardinality(OnUnder(b)) = 1
        /\ \A x \in DeclaredLocations(d) \cup DeclaredBoxes(d) : Cardinality(OnTop(x)) <= 1
        /\ d.holding # None =>
              \A j \in J : T[j][1] \in {s_on, s_box_at, s_clear}
                              => d.holding \notin Range(Tail(T[j]))
        /\ Cardinality({j \in J : T[j][1] \in {s_hands_empty, s_holding}}) = 1
        /\ \E j \in J : T[j] = IF d.holding = None THEN <<s_hands_empty>>
                               ELSE <<s_holding, d.holding>>

\* C13: for an accepted specification without a name that is both a box and a
\* location, the facts of init_facts are consistent: (i) clear x if and only
\* if nothing is on x, (ii) every stacked box is on exactly one thing and
\* every box and location has at most one box on it, (iii) the held box is
\* nowhere, and exactly one of (hands-empty) and (holding b) is present.
C13_InitialStateConsistent ==
    (pc = "emitted" /\ DeclaredLocations(data) \cap DeclaredBoxes(data) = {}) =>
        Consistent([j \in 1..Len(facts) |-> FactTokens(facts[j])], data)

\* The same without the condition on the names.  It does not hold: a box b on
\* top of a stack on a location b yields (clear b) and (on b b).
ConsistentWithSharedNames ==
    pc = "emitted" => Consistent([j \in 1..Len(facts) |-> FactTokens(facts[j])], data)

\* C13 witness: a specification with locations l and m, a held box and a
\* stack of two boxes was converted.
C13_Witness ==
    /\ pc = "emitted"
    /\ DeclaredLocations(data) = {nL, nM}
    /\ DeclaredBoxes(data) = Range(BoxList(3))
    /\ data.holding # None
    /\ \E i \in 1..Len(data.stacks) : Len(StackMembers(data, i)) = 2

====
